---- MODULE Spec2Model ----
(***************************************************************************)
(* Model of examples/ecommerce-with-reference/reference/pricing.py:        *)
(* calculate_total, apply_discount and validate_order.                     *)
(*                                                                         *)
(* The three functions are pure; what makes them interesting is that they  *)
(* compute money with Python floats (IEEE-754 binary64, round to nearest,  *)
(* ties to even) and round with the builtin round(x, 2).  The model keeps  *)
(* that arithmetic bit for bit: a float is an exact dyadic rational with   *)
(* at most 53 significant bits, and every operation rounds its exact       *)
(* result back to 53 bits.  A Python int is modelled as the float of the   *)
(* same value: the amounts here are far below 2^53, where the two agree.   *)
(***************************************************************************)
EXTENDS Integers, Sequences, FiniteSets, TLC

(***************************************************************************)
(* Natural numbers of any size: little-endian sequences of limbs in        *)
(* 0..B-1 with no zero limb at the top; <<>> is zero.  (TLC's integers are *)
(* 32 bits wide, a binary64 significand has 53 bits.)                      *)
(***************************************************************************)
B == 2^15

HalfB == 2^14

RECURSIVE Zeros(_)
Zeros(n) == IF n <= 0 THEN <<>> ELSE <<0>> \o Zeros(n - 1)

RECURSIVE NNorm(_)
NNorm(a) ==
    IF a = <<>> THEN <<>>
    ELSE IF a[Len(a)] = 0 THEN NNorm(SubSeq(a, 1, Len(a) - 1))
    ELSE a

RECURSIVE NFromInt(_)
NFromInt(n) == IF n = 0 THEN <<>> ELSE <<n % B>> \o NFromInt(n \div B)

RECURSIVE NToInt(_)
NToInt(a) == IF a = <<>> THEN 0 ELSE a[1] + B * NToInt(Tail(a))

Limb(a, i) == IF i <= Len(a) THEN a[i] ELSE 0

RECURSIVE NCmpFrom(_, _, _)
NCmpFrom(a, b, i) ==
    IF i = 0 THEN 0
    ELSE IF a[i] > b[i] THEN 1
    ELSE IF a[i] < b[i] THEN -1
    ELSE NCmpFrom(a, b, i - 1)

\* -1, 0, 1 as a < b, a = b, a > b (both without zero top limbs).
NCmp(a, b) ==
    IF Len(a) > Len(b) THEN 1
    ELSE IF Len(a) < Len(b) THEN -1
    ELSE NCmpFrom(a, b, Len(a))

RECURSIVE NAddFrom(_, _, _, _)
NAddFrom(a, b, i, carry) ==
    IF i > Len(a) /\ i > Len(b)
    THEN IF carry = 0 THEN <<>> ELSE <<carry>>
    ELSE LET s == Limb(a, i) + Limb(b, i) + carry
         IN  <<s % B>> \o NAddFrom(a, b, i + 1, s \div B)

NAdd(a, b) == NAddFrom(a, b, 1, 0)

RECURSIVE NSubFrom(_, _, _, _)
NSubFrom(a, b, i, borrow) ==
    IF i > Len(a) THEN <<>>
    ELSE LET s == a[i] - Limb(b, i) - borrow
         IN  IF s < 0 THEN <<s + B>> \o NSubFrom(a, b, i + 1, 1)
             ELSE <<s>> \o NSubFrom(a, b, i + 1, 0)

\* a - b for a >= b.
NSub(a, b) == NNorm(NSubFrom(a, b, 1, 0))

RECURSIVE NMulSmallFrom(_, _, _, _)
NMulSmallFrom(a, k, i, carry) ==
    IF i > Len(a)
    THEN IF carry = 0 THEN <<>> ELSE <<carry>>
    ELSE LET s == a[i] * k + carry
         IN  <<s % B>> \o NMulSmallFrom(a, k, i + 1, s \div B)

\* a * k for 0 <= k < B.
NMulSmall(a, k) == IF k = 0 THEN <<>> ELSE NMulSmallFrom(a, k, 1, 0)

RECURSIVE NMulFrom(_, _, _)
NMulFrom(a, b, i) ==
    IF i > Len(a) THEN <<>>
    ELSE NAdd(Zeros(i - 1) \o NMulSmall(b, a[i]), NMulFrom(a, b, i + 1))

NMul(a, b) == NNorm(NMulFrom(a, b, 1))

\* Short division of a by 0 < k < B from limb i down with remainder rem:
\* <<quotient limbs (little-endian), final remainder>>.
RECURSIVE NDivSmallFrom(_, _, _, _)
NDivSmallFrom(a, k, i, rem) ==
    IF i = 0 THEN <<<<>>, rem>>
    ELSE LET cur  == rem * B + a[i]
             rest == NDivSmallFrom(a, k, i - 1, cur % k)
         IN  <<rest[1] \o <<cur \div k>>, rest[2]>>

NDivSmall(a, k) ==
    LET r == NDivSmallFrom(a, k, Len(a), 0)
    IN  [q |-> NNorm(r[1]), r |-> r[2]]

RECURSIVE BitLenInt(_)
BitLenInt(n) == IF n = 0 THEN 0 ELSE 1 + BitLenInt(n \div 2)

NBitLen(a) == IF a = <<>> THEN 0 ELSE 15 * (Len(a) - 1) + BitLenInt(a[Len(a)])

(***************************************************************************)
(* binary64.  A float is [sgn, m, e] with value sgn * m * B^e, m a natural *)
(* of at most 53 significant bits with no zero limb at either end, so two  *)
(* floats are equal as records exactly when they are equal as numbers.     *)
(* Zero is [sgn |-> 1, m |-> <<>>, e |-> 0]: Python's -0.0 == 0.0, and     *)
(* nothing in pricing.py tells the two apart.  Infinities, NaN and         *)
(* subnormals lie outside the amounts modelled.                            *)
(***************************************************************************)
FZero == [sgn |-> 1, m |-> <<>>, e |-> 0]

RECURSIVE LowZeros(_)
LowZeros(a) == IF a = <<>> \/ a[1] # 0 THEN 0 ELSE 1 + LowZeros(Tail(a))

Canon(sgn, m, e) ==
    LET n == NNorm(m)
        z == LowZeros(n)
    IN  IF n = <<>> THEN FZero
        ELSE [sgn |-> sgn, m |-> SubSeq(n, z + 1, Len(n)), e |-> e + z]

\* m (no zero limb at the top), followed by a non-zero tail below its last
\* bit when sticky, rounded to the 53 significant bits of a binary64, ties to even.
RoundSig(m, sticky) ==
    LET L == NBitLen(m)
    IN  IF L <= 53 THEN m
        ELSE
          LET d    == L - 53
              dl   == d \div 15
              db   == d % 15
              x    == m[dl + 1]
              xlo  == x % (2^db)
              odd  == (x \div (2^db)) % 2 = 1
              below(n) == \E i \in 1..n : m[i] # 0
              \* the dropped bits against half a unit in the last place
              cmp  == IF db >= 1
                      THEN IF xlo > 2^(db - 1) THEN 1
                           ELSE IF xlo < 2^(db - 1) THEN -1
                           ELSE IF below(dl) \/ sticky THEN 1 ELSE 0
                      ELSE IF m[dl] > HalfB THEN 1
                           ELSE IF m[dl] < HalfB THEN -1
                           ELSE IF below(dl - 1) \/ sticky THEN 1 ELSE 0
              up   == cmp = 1 \/ (cmp = 0 /\ odd)
              kept == Zeros(dl) \o <<x - xlo>> \o SubSeq(m, dl + 2, Len(m))
          IN  IF up THEN NAdd(kept, Zeros(dl) \o <<2^db>>) ELSE kept

FromInt(n) == Canon(IF n < 0 THEN -1 ELSE 1, NFromInt(IF n < 0 THEN -n ELSE n), 0)

fneg(a) == IF a.m = <<>> THEN a ELSE [a EXCEPT !.sgn = -a.sgn]

\* a + b, correctly rounded.
fadd(a, b) ==
    LET e  == IF a.e < b.e THEN a.e ELSE b.e
        ma == IF a.m = <<>> THEN <<>> ELSE Zeros(a.e - e) \o a.m
        mb == IF b.m = <<>> THEN <<>> ELSE Zeros(b.e - e) \o b.m
        c  == NCmp(ma, mb)
    IN  IF a.m = <<>> THEN b
        ELSE IF b.m = <<>> THEN a
        ELSE IF a.sgn = b.sgn THEN Canon(a.sgn, RoundSig(NAdd(ma, mb), FALSE), e)
        ELSE IF c = 0 THEN FZero
        ELSE IF c = 1 THEN Canon(a.sgn, RoundSig(NSub(ma, mb), FALSE), e)
        ELSE Canon(b.sgn, RoundSig(NSub(mb, ma), FALSE), e)

fsub(a, b) == fadd(a, fneg(b))

\* a * b, correctly rounded.
fmul(a, b) ==
    IF a.m = <<>> \/ b.m = <<>> THEN FZero
    ELSE Canon(a.sgn * b.sgn, RoundSig(NMul(a.m, b.m), FALSE), a.e + b.e)

\* a / k for an integer 0 < k < B, correctly rounded: the significand is
\* widened by five limbs, so the quotient keeps more than 53 bits and
\* the remainder is the sticky tail.
fdivInt(a, k) ==
    IF a.m = <<>> THEN FZero
    ELSE LET d == NDivSmall(Zeros(5) \o a.m, k)
         IN  Canon(a.sgn, RoundSig(d.q, d.r # 0), a.e - 5)

\* The float a literal n/k denotes (0.10 is Dec(10, 100)): the nearest float.
Dec(n, k) == fdivInt(FromInt(n), k)

\* -1, 0, 1 as a < b, a = b, a > b.
fcmp(a, b) ==
    LET d == fsub(a, b)
    IN  IF d.m = <<>> THEN 0 ELSE d.sgn

\* the integer nearest to 100 * a, ties to even, on a's exact value
Cents(a) ==
    LET h    == NMulSmall(a.m, 100)
        n    == -a.e
        int  == IF n <= 0 THEN Zeros(-n) \o h ELSE SubSeq(h, n + 1, Len(h))
        top  == Limb(h, n)
        cmp  == IF n <= 0 THEN -1
                ELSE IF top > HalfB THEN 1
                ELSE IF top < HalfB THEN -1
                ELSE IF \E i \in 1..(n - 1) : Limb(h, i) # 0 THEN 1 ELSE 0
        i    == NToInt(int)
        up   == cmp = 1 \/ (cmp = 0 /\ i % 2 = 1)
    IN  IF a.m = <<>> THEN 0 ELSE a.sgn * (IF up THEN i + 1 ELSE i)

\* round(a, 2): the float nearest to the correctly rounded two-decimal value.
Round2(a) == Dec(Cents(a), 100)

(***************************************************************************)
(* The inputs the calls are drawn from.  A line item is a dict with price  *)
(* and quantity, a user a dict that may lack a key (a Python dict lookup   *)
(* of a missing key raises KeyError), tax_rate a float or None.            *)
(***************************************************************************)
None == [py |-> "None"]

Item(price, quantity) == [price |-> price, quantity |-> quantity]

ItemChoices ==
    { Item(FromInt(10), 12),
      Item(FromInt(5), 2),
      Item(Dec(125, 10000), 10),
      Item(FromInt(-10), 12),
      Item(Dec(1999, 100), 10),
      Item(Dec(1, 100), 10),
      Item(FromInt(10), -3) }

MaxItems == 2

RECURSIVE SeqsUpTo(_, _)
SeqsUpTo(S, n) ==
    IF n = 0 THEN {<<>>}
    ELSE LET shorter == SeqsUpTo(S, n - 1)
         IN  shorter \cup {Append(q, x) : q \in {r \in shorter : Len(r) = n - 1}, x \in S}

ItemLists == SeqsUpTo(ItemChoices, MaxItems)

Tiers == {"bronze", "silver", "gold", "Gold", "platinum"}

States == {"CA", "NY"}

Users ==
    {[loyaltyTier |-> t, state |-> s] : t \in Tiers, s \in States}
        \cup {[state |-> s] : s \in States}
        \cup {[loyaltyTier |-> t] : t \in {"gold", "platinum"}}

TaxRates == {None, FZero, Dec(8, 100), Dec(125, 100)}

(***************************************************************************)
(* calculate_total                                                         *)
(***************************************************************************)
\* sum(...) of line 18 and of line 22: a left fold from 0, each partial sum
\* rounded (CPython's sum up to 3.11; 0 + x is x).
RECURSIVE SumPrices(_)
SumPrices(items) ==
    IF items = <<>> THEN FZero
    ELSE LET n    == Len(items)
             last == items[n]
         IN  fadd(SumPrices(SubSeq(items, 1, n - 1)),
                  fmul(last.price, FromInt(last.quantity)))

RECURSIVE SumQuantities(_)
SumQuantities(items) ==
    IF items = <<>> THEN 0
    ELSE items[Len(items)].quantity + SumQuantities(SubSeq(items, 1, Len(items) - 1))

\* VolumeDiscount with the threshold read as "more than 10 items"
VolumeDiscountOverTen(subtotal, total_items) ==
    IF total_items > 10 THEN fmul(subtotal, Dec(10, 100)) ELSE FZero

\* lines 21-24
VolumeDiscount(subtotal, total_items) ==
    IF total_items >= 10 THEN fmul(subtotal, Dec(10, 100)) ELSE FZero

\* TierRate matching the tier whatever its case
TierRateIgnoreCase(tier) ==
    CASE tier = "bronze" -> Dec(5, 100)
      [] tier = "silver" -> Dec(10, 100)
      [] tier \in {"gold", "Gold"} -> Dec(15, 100)
      [] OTHER           -> FZero

\* TierRate with gold at 20%
TierRateGoldTwenty(tier) ==
    CASE tier = "bronze" -> Dec(5, 100)
      [] tier = "silver" -> Dec(10, 100)
      [] tier = "gold"   -> Dec(20, 100)
      [] OTHER           -> FZero

\* tier_discounts.get(tier, 0), lines 27-32
TierRate(tier) ==
    CASE tier = "bronze" -> Dec(5, 100)
      [] tier = "silver" -> Dec(10, 100)
      [] tier = "gold"   -> Dec(15, 100)
      [] OTHER           -> FZero

\* d[key]: the value, or the KeyError a missing key raises
Lookup(d, key) ==
    IF key \in DOMAIN d THEN [raised |-> "", value |-> d[key]]
    ELSE [raised |-> "KeyError", key |-> key]

\* EffectiveTaxRate testing "if not tax_rate": an override of 0 is taken for none
EffectiveTaxRateFalsy(user, tax_rate) ==
    IF tax_rate = None \/ tax_rate = FZero
    THEN LET state == Lookup(user, "state")
         IN  IF state.raised # "" THEN state
             ELSE [raised |-> "",
                   value |-> IF state.value = "CA" THEN Dec(8, 100) ELSE Dec(5, 100)]
    ELSE [raised |-> "", value |-> tax_rate]

\* lines 38-40: user['state'] is read only when no tax_rate was passed
EffectiveTaxRate(user, tax_rate) ==
    IF tax_rate = None
    THEN LET state == Lookup(user, "state")
         IN  IF state.raised # "" THEN state
             ELSE [raised |-> "",
                   value |-> IF state.value = "CA" THEN Dec(8, 100) ELSE Dec(5, 100)]
    ELSE [raised |-> "", value |-> tax_rate]

\* FinalTotal that forgets the discount
FinalTotalNoDiscount(subtotal, total_discount, tax) == fadd(subtotal, tax)

\* FinalTotal from a taxable amount rounded to cents first
FinalTotalRoundedTaxable(subtotal, total_discount, tax) ==
    fadd(Round2(fsub(subtotal, total_discount)), tax)

\* line 46: subtotal - total_discount + tax, evaluated left to right
FinalTotal(subtotal, total_discount, tax) == fadd(fsub(subtotal, total_discount), tax)

\* The locals of calculate_total where it returns, lines 18-46.
Locals(items, tier, rate) ==
    LET subtotal         == SumPrices(items)
        total_items      == SumQuantities(items)
        volume_discount  == VolumeDiscount(subtotal, total_items)
        loyalty_discount == fmul(subtotal, TierRate(tier))
        total_discount   == fadd(volume_discount, loyalty_discount)
        taxable_amount   == fsub(subtotal, total_discount)
        tax              == fmul(taxable_amount, rate)
    IN  [subtotal |-> subtotal, total_items |-> total_items,
         volume_discount |-> volume_discount, loyalty_discount |-> loyalty_discount,
         total_discount |-> total_discount, tax_rate |-> rate,
         taxable_amount |-> taxable_amount, tax |-> tax,
         total |-> FinalTotal(subtotal, total_discount, tax)]

\* lines 48-53
Returned(l) ==
    [subtotal |-> Round2(l.subtotal), discount |-> Round2(l.total_discount),
     tax |-> Round2(l.tax), total |-> Round2(l.total)]

\* The outcome of a call: the exception it raises (user['loyaltyTier'] of
\* line 32 is read before user['state'] of line 40) or the dict it returns,
\* with the locals it returned from.
calculate_total(items, user, tax_rate) ==
    LET tier == Lookup(user, "loyaltyTier")
        rate == EffectiveTaxRate(user, tax_rate)
    IN  IF tier.raised # "" THEN tier
        ELSE IF rate.raised # "" THEN rate
        ELSE LET l == Locals(items, tier.value, rate.value)
             IN  [raised |-> "", locals |-> l, value |-> Returned(l)]

(***************************************************************************)
(* apply_discount, lines 67-68                                             *)
(***************************************************************************)
\* apply_discount taking the percentage for a fraction
apply_discount_fraction(amount, discount_percent) ==
    Round2(fsub(amount, fmul(amount, discount_percent)))

apply_discount(amount, discount_percent) ==
    LET discount == fmul(amount, fdivInt(discount_percent, 100))
    IN  Round2(fsub(amount, discount))

(***************************************************************************)
(* validate_order, line 82; the default of minimum is line 71's 10.00      *)
(***************************************************************************)
DefaultMinimum == Dec(1000, 100)

\* validate_order with an exclusive boundary
validate_order_strict(order_total, minimum) == fcmp(order_total, minimum) > 0

validate_order(order_total, minimum) == fcmp(order_total, minimum) >= 0

Omitted == [py |-> "omitted"]

Amounts == {FromInt(100), FromInt(50), FromInt(0), FromInt(-20),
            Dec(1, 100), Dec(125, 1000), Dec(1999, 100), Dec(1005, 1000)}

Percents == {FromInt(0), FromInt(10), FromInt(100), FromInt(101), FromInt(150),
             FromInt(-10), FromInt(33), Dec(125, 10)}

\* order totals and minimums, in thousandths
Thousandths == {-1000, 0, 5, 9990, 9994, 9995, 9999, 10000, 10001, 10005, 25000, 100000}

OrderAmounts == {Dec(t, 1000) : t \in Thousandths}

(***************************************************************************)
(* The module has no state of its own: calls share nothing, so a behaviour *)
(* is one call, and a state is the call, its arguments and its outcome.    *)
(***************************************************************************)
VARIABLES fn, args, out

vars == <<fn, args, out>>

Init == fn = "none" /\ args = <<>> /\ out = <<>>

CalculateTotal ==
    \E items \in ItemLists, user \in Users, tax_rate \in TaxRates :
        /\ fn = "none"
        /\ fn' = "calculate_total"
        /\ args' = [items |-> items, user |-> user, tax_rate |-> tax_rate]
        /\ out' = calculate_total(items, user, tax_rate)

ApplyDiscount ==
    \E amount \in Amounts, discount_percent \in Percents :
        /\ fn = "none"
        /\ fn' = "apply_discount"
        /\ args' = [amount |-> amount, discount_percent |-> discount_percent]
        /\ out' = apply_discount(amount, discount_percent)

ValidateOrder ==
    \E order_total \in OrderAmounts, minimum \in OrderAmounts \cup {Omitted} :
        /\ fn = "none"
        /\ fn' = "validate_order"
        /\ args' = [order_total |-> order_total, minimum |-> minimum]
        /\ out' = validate_order(order_total,
                                 IF minimum = Omitted THEN DefaultMinimum ELSE minimum)

Next == CalculateTotal \/ ApplyDiscount \/ ValidateOrder

Spec == Init /\ [][Next]_vars

(***************************************************************************)
(* The claims.                                                             *)
(***************************************************************************)
KnownTiers == {"bronze", "silver", "gold"}

Abs(n) == IF n < 0 THEN -n ELSE n

fabs(a) == [a EXCEPT !.sgn = 1]

\* calculate_total was called and returned a dict
ReturnedTotal == fn = "calculate_total" /\ out.raised = ""

TotalQuantity == SumQuantities(args.items)

\* total - round(subtotal - discount + tax, 2) on the returned fields, in cents
RecomputedGap ==
    Cents(out.value.total)
        - Cents(Round2(fadd(fsub(out.value.subtotal, out.value.discount), out.value.tax)))

\* C1 as stated: the returned total is within 0.01 of
\* round(subtotal - discount + tax, 2) taken on the returned fields.
C1_WithinOneCent == ReturnedTotal => Abs(RecomputedGap) <= 1

\* C1 as amended: the returned total is within 0.02 of
\* round(subtotal - discount + tax, 2) taken on the returned fields.
C1_WithinTwoCents == ReturnedTotal => Abs(RecomputedGap) <= 2

C1_TwoCentsApart == ReturnedTotal /\ Abs(RecomputedGap) = 2

\* C2 as stated: a call whose user has no loyaltyTier, or one that is not
\* exactly bronze, silver or gold, does not fail but returns a result computed
\* with a loyalty discount of 0 (the user's state being there when it is read).
C2_TierNeverFails ==
    (/\ fn = "calculate_total"
     /\ \/ "loyaltyTier" \notin DOMAIN args.user
        \/ args.user["loyaltyTier"] \notin KnownTiers
     /\ "state" \in DOMAIN args.user \/ args.tax_rate # None)
        => out.raised = "" /\ out.locals.loyalty_discount = FZero

\* C3 as stated: with a total quantity of 10 or more the returned discount is
\* at least the returned subtotal * 0.10.
C3_DiscountAtLeastTenth ==
    (ReturnedTotal /\ TotalQuantity >= 10)
        => fcmp(out.value.discount, fmul(out.value.subtotal, Dec(10, 100))) >= 0

\* C3 as amended: with a total quantity of 10 or more and a returned subtotal
\* that is not negative, the returned discount is at least the returned
\* subtotal * 0.10 - 0.01.
C3_DiscountAtLeastTenthLessACent ==
    (ReturnedTotal /\ TotalQuantity >= 10 /\ fcmp(out.value.subtotal, FZero) >= 0)
        => fcmp(out.value.discount,
                fsub(fmul(out.value.subtotal, Dec(10, 100)), Dec(1, 100))) >= 0

C3_RoundedBelowTenth ==
    /\ ReturnedTotal /\ TotalQuantity >= 10
    /\ fcmp(out.value.subtotal, FZero) > 0
    /\ fcmp(out.value.discount, fmul(out.value.subtotal, Dec(10, 100))) < 0

\* C4: with a total quantity under 10 and a loyaltyTier that is not bronze,
\* silver or gold, the returned discount is exactly 0, whatever the tax rate.
C4_NoDiscount ==
    (ReturnedTotal /\ TotalQuantity < 10 /\ args.user["loyaltyTier"] \notin KnownTiers)
        => out.value.discount = FZero

C4_UnknownTierSmallOrder ==
    /\ ReturnedTotal /\ TotalQuantity < 10
    /\ args.user["loyaltyTier"] = "Gold"
    /\ args.tax_rate = Dec(125, 100)
    /\ out.value.subtotal # FZero
    /\ out.value.discount = FZero

\* C5: the rate is the caller's tax_rate whenever one is passed (0 included,
\* and then the tax is 0), otherwise 0.08 for state CA and 0.05 for any other
\* state; the returned tax is that rate times subtotal minus total discount,
\* rounded.
C5_TaxRate ==
    ReturnedTotal =>
        LET rate == IF args.tax_rate # None THEN args.tax_rate
                    ELSE IF args.user["state"] = "CA" THEN Dec(8, 100)
                    ELSE Dec(5, 100)
        IN  /\ out.locals.tax_rate = rate
            /\ out.value.tax
                 = Round2(fmul(fsub(out.locals.subtotal, out.locals.total_discount), rate))
            /\ args.tax_rate = FZero => out.value.tax = FZero

C5_ZeroOverride ==
    /\ ReturnedTotal
    /\ args.tax_rate = FZero
    /\ "state" \in DOMAIN args.user /\ args.user["state"] = "CA"
    /\ out.locals.taxable_amount # FZero
    /\ out.value.tax = FZero

\* the discounts of lines 21-35 are additive and uncapped
AdditiveDiscount ==
    LET l == out.locals
    IN  /\ l.volume_discount
             = IF TotalQuantity >= 10 THEN fmul(l.subtotal, Dec(10, 100)) ELSE FZero
        /\ l.loyalty_discount
             = fmul(l.subtotal,
                    CASE args.user["loyaltyTier"] = "bronze" -> Dec(5, 100)
                      [] args.user["loyaltyTier"] = "silver" -> Dec(10, 100)
                      [] args.user["loyaltyTier"] = "gold"   -> Dec(15, 100)
                      [] OTHER -> FZero)
        /\ l.total_discount = fadd(l.volume_discount, l.loyalty_discount)

GoldTwelveTens ==
    /\ fn = "calculate_total"
    /\ args.items = <<Item(FromInt(10), 12)>>
    /\ args.user = [loyaltyTier |-> "gold", state |-> "CA"]
    /\ args.tax_rate = None

GoldTwelveTensResult ==
    out.raised = ""
        /\ out.value = [subtotal |-> FromInt(120), discount |-> FromInt(30),
                        tax |-> Dec(720, 100), total |-> Dec(9720, 100)]

\* C6 as stated: the discount is the volume part plus the loyalty part, the
\* returned discount is at most 25% of the returned subtotal (in magnitude),
\* and 12 items of price 10 for a gold user in CA give 120.00, 30.00, 7.20
\* and 97.20.
C6_AtMostQuarter ==
    /\ ReturnedTotal =>
         /\ AdditiveDiscount
         /\ fcmp(fabs(out.value.discount),
                 fmul(fabs(out.value.subtotal), Dec(25, 100))) <= 0
    /\ GoldTwelveTens => GoldTwelveTensResult

\* C6 as amended: the discount is the volume part plus the loyalty part, the
\* returned discount is at most 25% of the returned subtotal plus 0.01 (in
\* magnitude), and the example holds.
C6_AtMostQuarterAndACent ==
    /\ ReturnedTotal =>
         /\ AdditiveDiscount
         /\ fcmp(fabs(out.value.discount),
                 fadd(fmul(fabs(out.value.subtotal), Dec(25, 100)), Dec(1, 100))) <= 0
    /\ GoldTwelveTens => GoldTwelveTensResult

C6_GoldVolumeOrder == GoldTwelveTens /\ GoldTwelveTensResult

\* C7 as stated: 2 items of price 5 for a bronze user in NY with no tax_rate
\* give subtotal 10.00, discount 0.50, tax 0.48 and total 9.98.
C7_HalfCentScenario ==
    (/\ fn = "calculate_total"
     /\ args.items = <<Item(FromInt(5), 2)>>
     /\ args.user = [loyaltyTier |-> "bronze", state |-> "NY"]
     /\ args.tax_rate = None)
        => /\ out.raised = ""
           /\ out.value = [subtotal |-> FromInt(10), discount |-> Dec(50, 100),
                           tax |-> Dec(48, 100), total |-> Dec(998, 100)]

\* the result is amount - amount * (discount_percent / 100) rounded to 2
\* decimals, with the examples of percent 0, 10 and 100
DiscountExamples ==
    /\ out = Round2(fsub(args.amount,
                         fmul(args.amount, fdivInt(args.discount_percent, 100))))
    /\ (args.amount = FromInt(50) /\ args.discount_percent = FromInt(0))
          => out = FromInt(50)
    /\ (args.amount = FromInt(100) /\ args.discount_percent = FromInt(10))
          => out = FromInt(90)
    /\ args.discount_percent = FromInt(100) => out = FZero

\* C8 as stated: percent 0 returns the amount unchanged, percent 100 returns 0,
\* apply_discount(50, 0) = 50.00, apply_discount(100, 10) = 90.00, and for a
\* positive amount a percent over 100 returns a negative result and a negative
\* percent more than the amount.
C8_SignsStrict ==
    fn = "apply_discount" =>
        /\ DiscountExamples
        /\ args.discount_percent = FZero => out = args.amount
        /\ (fcmp(args.amount, FZero) > 0 /\ fcmp(args.discount_percent, FromInt(100)) > 0)
              => fcmp(out, FZero) < 0
        /\ (fcmp(args.amount, FZero) > 0 /\ fcmp(args.discount_percent, FZero) < 0)
              => fcmp(out, args.amount) > 0

\* C8 as amended: percent 0 returns the amount rounded to 2 decimals, percent
\* 100 returns 0, the two examples hold, and for a positive amount a percent
\* over 100 returns a result that is not positive and a negative percent one
\* that is not below the amount rounded to 2 decimals.
C8_SignsRounded ==
    fn = "apply_discount" =>
        /\ DiscountExamples
        /\ args.discount_percent = FZero => out = Round2(args.amount)
        /\ (fcmp(args.amount, FZero) > 0 /\ fcmp(args.discount_percent, FromInt(100)) > 0)
              => fcmp(out, FZero) <= 0
        /\ (fcmp(args.amount, FZero) > 0 /\ fcmp(args.discount_percent, FZero) < 0)
              => fcmp(out, Round2(args.amount)) >= 0

C8_CentOverHundred ==
    /\ fn = "apply_discount"
    /\ args.amount = Dec(1, 100)
    /\ args.discount_percent = FromInt(101)
    /\ out = FZero

\* C9: validate_order is true exactly when order_total >= minimum, on the
\* values as they are (the thousandths they were written with), minimum being
\* 10.00 when omitted.
C9_Inclusive ==
    fn = "validate_order" =>
        LET minimum == IF args.minimum = Omitted THEN Dec(1000, 100) ELSE args.minimum
        IN  \A t \in Thousandths, m \in Thousandths :
                (args.order_total = Dec(t, 1000) /\ minimum = Dec(m, 1000))
                    => out = (t >= m)

C9_Boundary ==
    /\ fn = "validate_order"
    /\ args.minimum = Omitted
    /\ \/ args.order_total = Dec(999, 100) /\ out = FALSE
       \/ args.order_total = Dec(1000, 100) /\ out = TRUE

\* calculate_total with taxable_amount rounded to cents before tax and total
RoundedTaxableVariant ==
    LET l       == out.locals
        taxable == Round2(l.taxable_amount)
        tax     == fmul(taxable, l.tax_rate)
    IN  [subtotal |-> Round2(l.subtotal), discount |-> Round2(l.total_discount),
         tax |-> Round2(tax), total |-> Round2(fadd(taxable, tax))]

\* C10: tax comes from the un-rounded taxable amount, the total
\* subtotal - total_discount + tax is the same float as taxable_amount + tax,
\* and the four fields are rounded only where they are returned.
C10_RoundsAtOutput ==
    ReturnedTotal =>
        LET l == out.locals
        IN  /\ l.taxable_amount = fsub(l.subtotal, l.total_discount)
            /\ l.tax = fmul(l.taxable_amount, l.tax_rate)
            /\ l.total = fadd(l.taxable_amount, l.tax)
            /\ out.value = [subtotal |-> Round2(l.subtotal),
                            discount |-> Round2(l.total_discount),
                            tax |-> Round2(l.tax), total |-> Round2(l.total)]

C10_VariantOffByACent ==
    /\ ReturnedTotal
    /\ Abs(Cents(RoundedTaxableVariant.total) - Cents(out.value.total)) = 1
====
